---- MODULE Spec2Model ----
(***************************************************************************)
(* Model of sia-host-selector: the two variants of the whitelist updater.  *)
(*   "selectord" : src/cmd/selectord/main.go  (age filter delegated to the *)
(*                 index, throughput as decimals, failed run is logged)    *)
(*   "wallclock" : src/unnamed/part_000       (age filter applied locally  *)
(*                 against a wall-clock cutoff, throughput as uint64,      *)
(*                 failed run is fatal)                                    *)
(* The exchange-rate service, the host index and the node are external:   *)
(* their responses are drawn nondeterministically from bounded sets.       *)
(* Time is counted in ticks of one sleep period of the main loop.          *)
(***************************************************************************)
EXTENDS Integers, Sequences, FiniteSets, TLC

VARIABLES
    variant,    \* which of the two programs runs
    now,        \* wall clock, in ticks
    minAge,     \* package-level var minAge, set once when the process starts
    pc,         \* position of the process
    usd,        \* result of sc["usd"]: [ok, rate]
    hosts,      \* hosts returned by GetActiveHosts
    i,          \* 1-based position of the range loop over hosts
    stats,      \* the eight {min, max, avg} accumulators
    keys,       \* keys := []types.SiaPublicKey{}
    err,        \* value returned by the last updateHostWhitelist
    trace,      \* stages the current run has entered, in order
    published,  \* the node's host-database filter
    fpc,        \* formatBpsString: position
    bps,        \* formatBpsString: the argument
    speed,      \* formatBpsString: local speed
    fi,         \* formatBpsString: local i
    out         \* formatBpsString: the returned text, or the panic

mainVars == <<variant, now, minAge, pc, usd, hosts, i, stats, keys, err, trace, published>>
fmtVars == <<fpc, bps, speed, fi, out>>
vars == <<variant, now, minAge, pc, usd, hosts, i, stats, keys, err, trace, published,
          fpc, bps, speed, fi, out>>

Variants == {"selectord", "wallclock"}

----------------------------------------------------------------------------
(* Bounds and scaled program constants *)

\* longest host list the index returns
MaxHosts == 3
\* number of sleep periods the clock may advance
MaxSleeps == 1
\* var minHosts = 100, scaled down
minHosts == 2
\* one month (AddDate(0, -1, 0)), in ticks
Month == 2
\* the tick at which the process starts (time.Now() when minAge is set),
\* late enough that the cutoff it yields is a positive time
StartTime == Month + 1
\* minAge uint64 = 30 * 144 blocks (selectord)
minAgeBlocks == 30 * 144
\* decimal.DivisionPrecision (16 in the library), scaled down to fit 32-bit integers
DivisionPrecision == 2

MaxTime == StartTime + MaxSleeps

----------------------------------------------------------------------------
(* Error values returned by updateHostWhitelist *)

ErrNil == "nil"
ErrExchangeRate == "unable to get exchange rate"
ErrUsdRate == "usd rate not found or 0"
ErrFilteredHosts == "unable to get filtered hosts"
ErrNotEnoughHosts == "not enough hosts"
ErrPublicKey == "unable to load public key"
ErrAPIPassword == "unable to get api password"
ErrHostDbFilter == "unable to update hostdb filter"

----------------------------------------------------------------------------
(* decimal.Decimal as fixed point with DivisionPrecision fractional digits *)

RECURSIVE Pow(_, _)
Pow(b, e) == IF e = 0 THEN 1 ELSE b * Pow(b, e - 1)

DecimalScale == Pow(10, DivisionPrecision)

\* decimal.New(n, 0)
DecNew(n) == n * DecimalScale

\* Decimal.Div: DivRound to DivisionPrecision digits, half away from zero
DecDiv(a, b) == (2 * a * DecimalScale + b) \div (2 * b)

----------------------------------------------------------------------------
(* Host records *)

Metrics == {"contractPrice", "storagePrice", "downloadPrice", "uploadPrice",
            "uptime", "ages", "downloadSpeed", "uploadSpeed"}

\* A public key string is held as its parts split at ":" (algorithm, hex key)
HostPool ==
    { [PublicKey |-> <<"ed25519", "aa">>, FirstSeenTimestamp |-> StartTime - Month,
       ContractPrice |-> 2, StoragePrice |-> 3, DownloadBandwidthPrice |-> 4,
       UploadBandwidthPrice |-> 1, EstimatedUptime |-> 90,
       DataSize |-> 250, UploadTime |-> 2000, DownloadTime |-> 1000],
      [PublicKey |-> <<"ed25519", "bb">>, FirstSeenTimestamp |-> StartTime - Month + 1,
       ContractPrice |-> 5, StoragePrice |-> 1, DownloadBandwidthPrice |-> 7,
       UploadBandwidthPrice |-> 2, EstimatedUptime |-> 99,
       DataSize |-> 250, UploadTime |-> 500, DownloadTime |-> 300],
      [PublicKey |-> <<"ed25519">>, FirstSeenTimestamp |-> 0,
       ContractPrice |-> 1, StoragePrice |-> 2, DownloadBandwidthPrice |-> 3,
       UploadBandwidthPrice |-> 4, EstimatedUptime |-> 85,
       DataSize |-> 250, UploadTime |-> 4000, DownloadTime |-> 3000],
      [PublicKey |-> <<"cc">>, FirstSeenTimestamp |-> StartTime - Month + 1,
       ContractPrice |-> 0, StoragePrice |-> 9, DownloadBandwidthPrice |-> 1,
       UploadBandwidthPrice |-> 9, EstimatedUptime |-> 100,
       DataSize |-> 250, UploadTime |-> 1000, DownloadTime |-> 700] }

HostLists == UNION { [1..n -> HostPool] : n \in 0..MaxHosts }

\* a LoadString that accepts every string
LoadStringNeverFails(pk) == FALSE

\* SiaPublicKey.LoadString: the string must split into algorithm and key
LoadStringFails(pk) == Len(pk) # 2

\* the key LoadString leaves in spk: the zero value when it fails
LoadString(pk) ==
    IF Len(pk) = 2 THEN [Algorithm |-> pk[1], Key |-> pk[2]]
    ELSE [Algorithm |-> "", Key |-> ""]

\* responses of GetExchangeRate: a transport error, or the currency map
RateResponses ==
    { [err |-> TRUE, ok |-> FALSE, rate |-> 0],
      [err |-> FALSE, ok |-> FALSE, rate |-> 0],
      [err |-> FALSE, ok |-> TRUE, rate |-> -1],
      [err |-> FALSE, ok |-> TRUE, rate |-> 0],
      [err |-> FALSE, ok |-> TRUE, rate |-> 2] }

NoRate == [ok |-> FALSE, rate |-> 0]

----------------------------------------------------------------------------
(* The pieces of updateHostWhitelist *)

\* a rate check that lets a zero rate through
RateInvalidBelowZero(u) == ~u.ok \/ u.rate < 0

\* if !ok || rate <= 0
RateInvalid(u) == ~u.ok \/ u.rate <= 0

\* a minimum-host check that is off by one
NotEnoughHostsOffByOne(n) == minHosts > n + 1

\* if minHosts > len(hosts)
NotEnoughHosts(n) == minHosts > n

\* an age filter that also drops the host first seen exactly at the cutoff
AgeSkippedAtCutoff(h) == variant = "wallclock" /\ h.FirstSeenTimestamp >= minAge

\* if host.FirstSeenTimestamp.After(minAge) { continue }   (wallclock only)
AgeSkipped(h) == variant = "wallclock" /\ h.FirstSeenTimestamp > minAge

\* if i == 0 { ... .min = ... }
SeedsExtrema(idx) == idx = 1

\* the value of a metric for one host, as the loop body derives it
Value(m, h) ==
    CASE m = "contractPrice" -> h.ContractPrice
      [] m = "storagePrice" -> h.StoragePrice
      [] m = "downloadPrice" -> h.DownloadBandwidthPrice
      [] m = "uploadPrice" -> h.UploadBandwidthPrice
      [] m = "uptime" -> DecNew(h.EstimatedUptime)
      [] m = "ages" -> now - h.FirstSeenTimestamp
      [] m = "downloadSpeed" ->
            IF variant = "selectord"
            THEN DecDiv(DecNew(h.DataSize * 8), DecDiv(DecNew(h.DownloadTime), DecNew(1000)))
            ELSE (h.DataSize * 8) \div h.DownloadTime
      [] m = "uploadSpeed" ->
            IF variant = "selectord"
            THEN DecDiv(DecNew(h.DataSize * 8), DecDiv(DecNew(h.UploadTime), DecNew(1000)))
            ELSE (h.DataSize * 8) \div h.UploadTime

\* one metric's accumulator after the loop body has seen value v
UpdateStat(s, v, idx) ==
    LET s1 == [s EXCEPT !.avg = @ + v]
        s2 == IF SeedsExtrema(idx) THEN [s1 EXCEPT !.min = v] ELSE s1
        s3 == IF v < s2.min THEN [s2 EXCEPT !.min = v] ELSE s2
    IN  IF v > s3.max THEN [s3 EXCEPT !.max = v] ELSE s3

\* the divisor of every average: len(hosts)
Divisor == Len(hosts)

\* the division that turns a metric's running sum into its average
Average(m, sum, n) ==
    IF m \in {"uptime"} \/ (variant = "selectord" /\ m \in {"downloadSpeed", "uploadSpeed"})
    THEN DecDiv(sum, DecNew(n))
    ELSE sum \div n

ZeroStats == [m \in Metrics |-> [min |-> 0, max |-> 0, avg |-> 0]]

NoFilter == [mode |-> "disabled", hosts |-> <<>>]

\* return e
Return(e) == pc' = "returned" /\ err' = e

----------------------------------------------------------------------------
(* formatBpsString is idle while the process runs *)

FmtIdle ==
    /\ fpc = "idle" /\ bps = <<0>> /\ speed = [coef |-> <<0>>, exp |-> 0]
    /\ fi = 0 /\ out = [mant |-> <<>>, unit |-> ""]

Init ==
    /\ variant \in Variants
    /\ now = StartTime
    /\ minAge = IF variant = "wallclock" THEN StartTime - Month ELSE minAgeBlocks
    /\ pc = "start"
    /\ usd = NoRate
    /\ hosts = <<>>
    /\ i = 0
    /\ stats = ZeroStats
    /\ keys = <<>>
    /\ err = ErrNil
    /\ trace = <<>>
    /\ published = NoFilter
    /\ FmtIdle

----------------------------------------------------------------------------
(* updateHostWhitelist *)

\* sc, _, err := GetExchangeRate(); rate, ok := sc["usd"]; the locals are fresh
GetExchangeRate ==
    /\ pc = "start"
    /\ \E r \in RateResponses :
        /\ usd' = [ok |-> r.ok, rate |-> r.rate]
        /\ IF r.err THEN Return(ErrExchangeRate)
           ELSE IF RateInvalid(usd') THEN Return(ErrUsdRate)
           ELSE pc' = "query" /\ err' = ErrNil
    /\ trace' = <<"rate">>
    /\ hosts' = <<>> /\ i' = 0 /\ stats' = ZeroStats /\ keys' = <<>>
    /\ UNCHANGED <<variant, now, minAge, published>>
    /\ UNCHANGED fmtVars

\* hosts, err := siaCentralClient.GetActiveHosts(filter ...)
GetActiveHosts ==
    /\ pc = "query"
    /\ trace' = Append(trace, "query")
    /\ \/ /\ Return(ErrFilteredHosts)
          /\ UNCHANGED hosts
       \/ /\ hosts' \in HostLists
          /\ pc' = "minhosts"
          /\ UNCHANGED err
    /\ UNCHANGED <<variant, now, minAge, usd, i, stats, keys, published>>
    /\ UNCHANGED fmtVars

\* if minHosts > len(hosts) { return ... }
CheckMinHosts ==
    /\ pc = "minhosts"
    /\ trace' = Append(trace, "minhosts")
    /\ IF NotEnoughHosts(Len(hosts))
       THEN Return(ErrNotEnoughHosts) /\ UNCHANGED i
       ELSE pc' = "loop" /\ i' = 1 /\ UNCHANGED err
    /\ UNCHANGED <<variant, now, minAge, usd, hosts, stats, keys, published>>
    /\ UNCHANGED fmtVars

EnterPass == IF "aggregate" \in { trace[k] : k \in 1..Len(trace) }
             THEN trace ELSE Append(trace, "aggregate")

\* one iteration of the range loop that hits the age filter's continue
SkipHost ==
    /\ pc = "loop" /\ i <= Len(hosts)
    /\ AgeSkipped(hosts[i])
    /\ i' = i + 1
    /\ trace' = EnterPass
    /\ UNCHANGED <<variant, now, minAge, pc, usd, hosts, stats, keys, err, published>>
    /\ UNCHANGED fmtVars

\* one full iteration of the range loop
AggregateHost ==
    /\ pc = "loop" /\ i <= Len(hosts)
    /\ ~AgeSkipped(hosts[i])
    /\ stats' = [m \in Metrics |-> UpdateStat(stats[m], Value(m, hosts[i]), i)]
    /\ trace' = EnterPass
    /\ IF LoadStringFails(hosts[i].PublicKey)
       THEN Return(ErrPublicKey) /\ UNCHANGED <<keys, i>>
       ELSE /\ keys' = Append(keys, LoadString(hosts[i].PublicKey))
            /\ i' = i + 1
            /\ UNCHANGED <<pc, err>>
    /\ UNCHANGED <<variant, now, minAge, usd, hosts, published>>
    /\ UNCHANGED fmtVars

\* the averages after the loop; the table is printed
FinishPass ==
    /\ pc = "loop" /\ i > Len(hosts)
    /\ stats' = [m \in Metrics |-> [stats[m] EXCEPT !.avg = Average(m, @, Divisor)]]
    /\ pc' = "password"
    /\ UNCHANGED <<variant, now, minAge, usd, hosts, i, keys, err, trace, published>>
    /\ UNCHANGED fmtVars

\* siaPass, err := build.APIPassword()
APIPassword ==
    /\ pc = "password"
    /\ trace' = Append(trace, "password")
    /\ \/ Return(ErrAPIPassword)
       \/ pc' = "post" /\ UNCHANGED err
    /\ UNCHANGED <<variant, now, minAge, usd, hosts, i, stats, keys, published>>
    /\ UNCHANGED fmtVars

\* err = siaClient.HostDbFilterModePost(modules.HostDBActiveWhitelist, keys, nil)
HostDbFilterModePost ==
    /\ pc = "post"
    /\ trace' = Append(trace, "publish")
    /\ \/ Return(ErrHostDbFilter) /\ UNCHANGED published
       \/ /\ published' = [mode |-> "whitelist", hosts |-> keys]
          /\ Return(ErrNil)
    /\ UNCHANGED <<variant, now, minAge, usd, hosts, i, stats, keys>>
    /\ UNCHANGED fmtVars

----------------------------------------------------------------------------
(* main *)

\* a main loop that dies on a failed run in both variants
FailureAlwaysFatal == TRUE

\* what main does with a non-nil error: log.Fatalln or log.Println
FailureIsFatal == variant = "wallclock"

\* the locals of updateHostWhitelist are gone once it has returned
DropLocals ==
    /\ usd' = NoRate /\ hosts' = <<>> /\ i' = 0 /\ stats' = ZeroStats
    /\ keys' = <<>> /\ trace' = <<>>

\* err == nil: on to the sleep
RunSucceeded ==
    /\ pc = "returned" /\ err = ErrNil
    /\ pc' = "sleep"
    /\ DropLocals
    /\ UNCHANGED <<variant, now, minAge, err, published>>
    /\ UNCHANGED fmtVars

\* log.Println("[WARN]", err)
LogWarn ==
    /\ pc = "returned" /\ err # ErrNil /\ ~FailureIsFatal
    /\ pc' = "sleep"
    /\ DropLocals
    /\ UNCHANGED <<variant, now, minAge, err, published>>
    /\ UNCHANGED fmtVars

\* log.Fatalln(err)
Fatal ==
    /\ pc = "returned" /\ err # ErrNil /\ FailureIsFatal
    /\ pc' = "exited"
    /\ DropLocals
    /\ UNCHANGED <<variant, now, minAge, err, published>>
    /\ UNCHANGED fmtVars

\* time.Sleep(time.Hour * 8)
Sleep ==
    /\ pc = "sleep" /\ now < MaxTime
    /\ now' = now + 1
    /\ pc' = "start"
    /\ UNCHANGED <<variant, minAge, usd, hosts, i, stats, keys, err, trace, published>>
    /\ UNCHANGED fmtVars

Next ==
    \/ GetExchangeRate
    \/ GetActiveHosts
    \/ CheckMinHosts
    \/ SkipHost
    \/ AggregateHost
    \/ FinishPass
    \/ APIPassword
    \/ HostDbFilterModePost
    \/ RunSucceeded
    \/ LogWarn
    \/ Fatal
    \/ Sleep

Spec == Init /\ [][Next]_vars

\* the process is one sequential goroutine: it always takes its next step
LiveSpec == Init /\ [][Next]_vars /\ WF_vars(Next)

----------------------------------------------------------------------------
(* formatBpsString.  A number is held exactly, as shopspring/decimal holds *)
(* it: a coefficient and an exponent.  The coefficient is a sequence of    *)
(* base-1000 digits, most significant first; the value is                  *)
(* coef * 1000^(-exp).  Arguments range over the integers 0 .. 10^18, for  *)
(* which at most five divisions by 1000 happen, so every quotient has at   *)
(* most 15 fractional digits and Decimal.Div (16 digits) is exact.         *)

\* const units = "KMGTPE"
units == <<"K", "M", "G", "T", "P", "E">>

\* digits an argument is built from
GroupDigits == {0, 1, 8, 999}

\* the arguments: 0 .. 10^18 - 1 with digits from GroupDigits, and 10^18 itself
FormatInputs ==
    LET withLen(n) == { g \in [1..n -> GroupDigits] : n = 1 \/ g[1] # 0 }
    IN  UNION { withLen(n) : n \in 1..Len(units) }
          \cup { [k \in 1..(Len(units) + 1) |-> IF k = 1 THEN 1 ELSE 0] }

RECURSIVE GroupsValue(_)
GroupsValue(g) == IF g = <<>> THEN 0 ELSE GroupsValue(SubSeq(g, 1, Len(g) - 1)) * 1000 + g[Len(g)]

\* d.Cmp(factor) for factor = 1000: compare coef with 1000^(exp + 1)
CmpFactor(d) ==
    LET n == Len(d.coef)
        p == d.exp + 2
    IN  IF n > p THEN 1
        ELSE IF n < p \/ d.coef[1] = 0 THEN -1
        ELSE IF d.coef[1] > 1 \/ \E k \in 2..n : d.coef[k] # 0 THEN 1
        ELSE 0

\* d.Div(factor): exact, the exponent moves by one base-1000 digit
DivFactor(d) == [d EXCEPT !.exp = @ + 1]

\* d.StringFixed(2): <<integer part, hundredths>>, rounded half up
StringFixed2(d) ==
    LET n == Len(d.coef)
        whole == IF n > d.exp THEN GroupsValue(SubSeq(d.coef, 1, n - d.exp)) ELSE 0
        frac == IF d.exp >= 1 /\ n - d.exp + 1 >= 1 THEN d.coef[n - d.exp + 1] ELSE 0
        cents == (frac + 5) \div 10
    IN  IF cents = 100 THEN <<whole + 1, 0>> ELSE <<whole, cents>>

\* var i = -1 (selectord), var i = 0 (wallclock)
FirstIndex == IF variant = "selectord" THEN -1 ELSE 0

\* units[i] with Go's 0-based index: a panic outside 0 .. len(units) - 1
UnitAt(idx) == IF idx < 0 \/ idx >= Len(units) THEN "index out of range" ELSE units[idx + 1]

FormatInit ==
    /\ variant \in Variants
    /\ now = StartTime
    /\ minAge = IF variant = "wallclock" THEN StartTime - Month ELSE minAgeBlocks
    /\ pc = "start"
    /\ usd = NoRate /\ hosts = <<>> /\ i = 0 /\ stats = ZeroStats /\ keys = <<>>
    /\ err = ErrNil /\ trace = <<>> /\ published = NoFilter
    /\ fpc = "call"
    /\ bps \in FormatInputs
    /\ speed = [coef |-> bps, exp |-> 0]
    /\ fi = 0
    /\ out = [mant |-> <<>>, unit |-> ""]

\* the short circuit for < 1000 bits/s
FormatShort ==
    /\ fpc = "call"
    /\ CmpFactor(speed) < 0
    /\ out' = [mant |-> IF variant = "selectord" THEN StringFixed2(speed)
                        ELSE <<GroupsValue(bps)>>,
               unit |-> "bps"]
    /\ fpc' = "done"
    /\ UNCHANGED <<bps, speed, fi>>
    /\ UNCHANGED mainVars

\* var i = ...; var factor = decimal.New(1000, 0)
FormatEnterLoop ==
    /\ fpc = "call"
    /\ ~(CmpFactor(speed) < 0)
    /\ fi' = FirstIndex
    /\ fpc' = "loop"
    /\ UNCHANGED <<bps, speed, out>>
    /\ UNCHANGED mainVars

\* for ; speed.Cmp(factor) > 0; i++ { speed = speed.Div(factor) }
FormatDivide ==
    /\ fpc = "loop"
    /\ CmpFactor(speed) > 0
    /\ speed' = DivFactor(speed)
    /\ fi' = fi + 1
    /\ UNCHANGED <<fpc, bps, out>>
    /\ UNCHANGED mainVars

\* return fmt.Sprintf("%v %cbps", speed.StringFixed(2), units[i])
FormatReturn ==
    /\ fpc = "loop"
    /\ ~(CmpFactor(speed) > 0)
    /\ out' = IF UnitAt(fi) = "index out of range"
              THEN [mant |-> <<>>, unit |-> "index out of range"]
              ELSE [mant |-> StringFixed2(speed), unit |-> UnitAt(fi) \o "bps"]
    /\ fpc' = "done"
    /\ UNCHANGED <<bps, speed, fi>>
    /\ UNCHANGED mainVars

FormatNext ==
    \/ FormatShort
    \/ FormatEnterLoop
    \/ FormatDivide
    \/ FormatReturn

FormatSpec == FormatInit /\ [][FormatNext]_vars

----------------------------------------------------------------------------
(* Vocabulary of the properties *)

Stage(st) == st \in { trace[k] : k \in 1..Len(trace) }

StageOrder == <<"rate", "query", "minhosts", "aggregate", "password", "publish">>

IsPrefix(a, b) == Len(a) <= Len(b) /\ a = SubSeq(b, 1, Len(a))

Malformed(h) == Len(h.PublicKey) # 2

\* first seen after the cutoff the process holds
Young(h) == h.FirstSeenTimestamp > minAge

\* the records of a list that enter the aggregation pass
Passing(hs) ==
    IF variant = "wallclock" THEN SelectSeq(hs, LAMBDA h : ~Young(h)) ELSE hs

ParsedKeys(hs) ==
    [k \in 1..Len(hs) |-> [Algorithm |-> hs[k].PublicKey[1], Key |-> hs[k].PublicKey[2]]]

RECURSIVE SumOf(_, _)
SumOf(m, hs) == IF hs = <<>> THEN 0 ELSE Value(m, Head(hs)) + SumOf(m, Tail(hs))

ValuesOf(m, hs) == { Value(m, hs[k]) : k \in 1..Len(hs) }

PassDone == pc \in {"password", "post"}

----------------------------------------------------------------------------
(* C1: when the index returns fewer than minHosts records, the run ends    *)
(* with the "not enough hosts" error, before the aggregation pass, and the *)
(* whitelist-update call is not made in that run (both variants).          *)
C1_TooFewHostsNoPublish ==
    (Stage("minhosts") /\ Len(hosts) < minHosts) =>
        /\ pc = "returned"
        /\ err = ErrNotEnoughHosts
        /\ ~Stage("aggregate")
        /\ ~Stage("publish")
        /\ keys = <<>>

C1_Witness ==
    /\ pc = "returned" /\ err = ErrNotEnoughHosts
    /\ Len(hosts) = minHosts - 1
    /\ ~Stage("publish")

(* C2: a record that enters the pass with a public key that does not parse *)
(* makes the run return "unable to load public key" at that record; the    *)
(* keys parsed so far are not published and the whitelist-update call is   *)
(* not made in that run (both variants).                                   *)
C2_MalformedKeyAborts ==
    /\ [][ (pc = "loop" /\ i <= Len(hosts) /\ Malformed(hosts[i])
              /\ ~(variant = "wallclock" /\ Young(hosts[i])))
           => (pc' = "returned" /\ err' = ErrPublicKey /\ i' = i
                 /\ keys' = keys /\ published' = published) ]_vars
    /\ [](pc = "returned" /\ err = ErrPublicKey
            => ~Stage("password") /\ ~Stage("publish") /\ Malformed(hosts[i]))

C2_Witness ==
    /\ pc = "returned" /\ err = ErrPublicKey
    /\ Len(keys) >= 1
    /\ published = NoFilter
    /\ ~Stage("publish")

(* C3: whenever the whitelist-update call is made, the key sequence it     *)
(* submits has at least minHosts keys (both variants).                     *)
C3_PublishedAtLeastMinHosts ==
    Stage("publish") => Len(keys) >= minHosts

(* C4: after a pass that aggregated at least one record, every metric has  *)
(* min <= avg <= max, and min and max are each the derived value of an     *)
(* aggregated record.                                                      *)
C4_ExtremaBracketAverage ==
    (PassDone /\ Passing(hosts) # <<>>) =>
        \A m \in Metrics :
            /\ stats[m].min <= stats[m].avg
            /\ stats[m].avg <= stats[m].max
            /\ stats[m].min \in ValuesOf(m, Passing(hosts))
            /\ stats[m].max \in ValuesOf(m, Passing(hosts))

(* C5: every reported avg is the sum over the aggregated records divided   *)
(* by the number of aggregated records.                                    *)
C5_AverageOverAggregated ==
    (PassDone /\ Passing(hosts) # <<>>) =>
        \A m \in Metrics :
            stats[m].avg = Average(m, SumOf(m, Passing(hosts)), Len(Passing(hosts)))

(* C6: in the wall-clock variant a record first seen after the cutoff      *)
(* leaves every min, max, running sum and the key list unchanged, and a    *)
(* record first seen at or before the cutoff adds its values to the sums   *)
(* and its key to the list, in the order of the index.                     *)
C6_AgeFilterExcludes ==
    /\ [][ (variant = "wallclock" /\ pc = "loop" /\ i <= Len(hosts)) =>
             IF hosts[i].FirstSeenTimestamp > minAge
             THEN stats' = stats /\ keys' = keys /\ i' = i + 1 /\ pc' = "loop"
             ELSE /\ \A m \in Metrics : stats'[m].avg = stats[m].avg + Value(m, hosts[i])
                  /\ ~Malformed(hosts[i]) =>
                        /\ keys' = Append(keys, [Algorithm |-> hosts[i].PublicKey[1],
                                                 Key |-> hosts[i].PublicKey[2]])
                        /\ i' = i + 1 ]_vars
    /\ []((variant = "wallclock" /\ pc \in {"loop", "password", "post"}) =>
            LET old == SelectSeq(SubSeq(hosts, 1, i - 1),
                                 LAMBDA h : h.FirstSeenTimestamp <= minAge)
            IN  /\ keys = ParsedKeys(old)
                /\ pc = "loop" => \A m \in Metrics :
                      /\ stats[m].avg = SumOf(m, old)
                      /\ stats[m].max \in ValuesOf(m, old) \cup {0})

C6_Witness ==
    /\ variant = "wallclock" /\ pc = "password"
    /\ Len(keys) >= 1
    /\ Len(keys) < Len(hosts)
    /\ \E k \in 1..Len(hosts) : hosts[k].FirstSeenTimestamp = minAge

(* C8: the stages of a run occur in the fixed order rate, query, minimum   *)
(* check, aggregation, (password,) publish, each at most once; the query   *)
(* is only issued with a usd rate that is present and positive; a run that *)
(* fails before the publish call has not made it; and the node's whitelist *)
(* changes only in a step that ends a run in which every stage succeeded.  *)
C8_StagesInOrder ==
    /\ [](IsPrefix(trace, StageOrder))
    /\ [](Stage("query") => usd.ok /\ usd.rate > 0)
    /\ [](Stage("aggregate") => Len(hosts) >= minHosts)
    /\ []((pc = "returned" /\ err \notin {ErrNil, ErrHostDbFilter}) => ~Stage("publish"))
    /\ [][ published' # published =>
             /\ pc = "post" /\ pc' = "returned" /\ err' = ErrNil
             /\ trace' = StageOrder
             /\ published' = [mode |-> "whitelist", hosts |-> keys] ]_vars

C8_Witness ==
    /\ pc = "returned" /\ err = ErrUsdRate
    /\ trace = <<"rate">>
    /\ published.mode = "whitelist"

C10_CutoffFollowsClock ==
    (variant = "wallclock" /\ PassDone) =>
        Len(keys) = Len(SelectSeq(hosts, LAMBDA h : h.FirstSeenTimestamp <= now - Month))

(* C7: for an argument v of 1000 bits/s or more formatBpsString divides by *)
(* 1000 k >= 1 times and prints the k-th of the suffixes K, M, G, T, P, E; *)
(* 8,000,000 is printed as "8.00 Mbps"; nothing in 1000 .. 10^18 indexes   *)
(* outside the suffix table (both variants).                               *)
C7_FormatSuffixMatchesDivisions ==
    (fpc = "done" /\ Len(bps) >= 2) =>
        /\ out.unit # "index out of range"
        /\ speed.exp >= 1
        /\ out.unit = units[speed.exp] \o "bps"
        /\ bps = <<8, 0, 0>> => out = [mant |-> <<8, 0>>, unit |-> "Mbps"]

====
